---- MODULE Spec2Model ----
(***************************************************************************)
(* Joystick mouse receiver (joystick-mouse/src/main.rs).                   *)
(*                                                                         *)
(* The receiver loops forever: it reads one record from the serial port up *)
(* to a carriage return, converts it to text, splits it on whitespace,     *)
(* parses every token as an i32, requires seven of them, decodes click,    *)
(* axes, sensitivity and scroll, reads the cursor position and issues      *)
(* move_to, click and wheel on the pointer device.                         *)
(*                                                                         *)
(* Bytes are integers 0..255, text is a sequence of code points, and i32   *)
(* values keep their 32-bit range.  The serial port and the pointer device *)
(* are the environment: the port delivers any record of Records or fails,  *)
(* every device call may fail, and an external actor may move the cursor   *)
(* at any time.                                                            *)
(***************************************************************************)
EXTENDS Integers, Sequences, FiniteSets, TLC

VARIABLES
    pc,               \* position of main in its loop
    status,           \* "running", or the panic that ended the process
    overflow_checks,  \* build profile: are integer overflow checks compiled in
    buffer,           \* the bytes read_until delivered (line 48-50)
    data,             \* the seven parsed numbers of the frame (line 60-62)
    click,            \* line 69
    x,                \* line 75
    y,                \* line 82
    sensitivity,      \* line 90
    scroll,           \* line 94
    position,         \* line 101
    cursor,           \* the host's cursor, owned by the pointer device
    calls             \* pointer-device calls issued since the last read

vars == <<pc, status, overflow_checks, buffer, data, click, x, y, sensitivity,
          scroll, position, cursor, calls>>

-----------------------------------------------------------------------------
(* Bounds of the model. *)

\* the host screen is 0..ScreenMax wide and two rows high
ScreenMax == 1
\* raw axis values SweepLo..SweepHi are all delivered, besides the samples
SweepLo == 465
SweepHi == 556
\* records of 0..MaxTokens integer tokens are delivered
MaxTokens == 8
\* flag fields take the values 0..MaxFlag
MaxFlag == 2

-----------------------------------------------------------------------------
(* i32 *)

MaxI32 == 2147483647
MinI32 == -MaxI32 - 1

\* i32 subtraction of a non-negative constant, wrapping around (two's
\* complement), as a build without overflow checks computes it
WrappingSub(a, b) ==
    IF a >= MinI32 + b THEN a - b ELSE (a + MaxI32) + (MaxI32 - b + 2)

\* does a - b leave the i32 range (b >= 0)
SubOverflows(a, b) == a < MinI32 + b

\* i32::clamp
Clamp(v, lo, hi) == IF v < lo THEN lo ELSE IF v > hi THEN hi ELSE v

\* i32::abs, for values whose magnitude is representable
Abs(v) == IF v < 0 THEN -v ELSE v

\* the magnitude of v as a non-positive number (representable for MinI32 too)
NegMag(v) == IF v > 0 THEN -v ELSE v

\* checked_div with the quotient floored instead of truncated
CheckedDiv_Floored(a, b) ==
    IF b = 0 \/ (a = MinI32 /\ b = -1)
    THEN [some |-> FALSE, val |-> 0]
    ELSE [some |-> TRUE, val |-> a \div b]

\* i32::checked_div: None for a zero divisor or for MinI32 / -1, else the
\* quotient truncated toward zero
CheckedDiv(a, b) ==
    IF b = 0 \/ (a = MinI32 /\ b = -1)
    THEN [some |-> FALSE, val |-> 0]
    ELSE LET q == NegMag(a) \div NegMag(b)
         IN  [some |-> TRUE, val |-> IF (a < 0) = (b < 0) THEN q ELSE -q]

\* Option::unwrap_or
UnwrapOr(opt, default) == IF opt.some THEN opt.val ELSE default

-----------------------------------------------------------------------------
(* String::from_utf8 *)

IsCont(b) == b \in 128..191

\* the length of the UTF-8 sequence starting at bytes[i], or 0 if it is invalid
Utf8Width(bytes, i) ==
    LET n == Len(bytes)
        b0 == bytes[i]
        c(k) == i + k <= n /\ IsCont(bytes[i + k])
        r(k, lo, hi) == i + k <= n /\ bytes[i + k] \in lo..hi
    IN  IF b0 < 128 THEN 1
        ELSE IF b0 \in 194..223 THEN (IF c(1) THEN 2 ELSE 0)
        ELSE IF b0 = 224 THEN (IF r(1, 160, 191) /\ c(2) THEN 3 ELSE 0)
        ELSE IF b0 \in 225..236 \/ b0 \in 238..239
             THEN (IF c(1) /\ c(2) THEN 3 ELSE 0)
        ELSE IF b0 = 237 THEN (IF r(1, 128, 159) /\ c(2) THEN 3 ELSE 0)
        ELSE IF b0 = 240 THEN (IF r(1, 144, 191) /\ c(2) /\ c(3) THEN 4 ELSE 0)
        ELSE IF b0 \in 241..243 THEN (IF c(1) /\ c(2) /\ c(3) THEN 4 ELSE 0)
        ELSE IF b0 = 244 THEN (IF r(1, 128, 143) /\ c(2) /\ c(3) THEN 4 ELSE 0)
        ELSE 0

\* the code point of the w-byte sequence starting at bytes[i]
Utf8CodePoint(bytes, i, w) ==
    LET t(k) == bytes[i + k] - 128
    IN  IF w = 1 THEN bytes[i]
        ELSE IF w = 2 THEN (bytes[i] - 192) * 64 + t(1)
        ELSE IF w = 3 THEN (bytes[i] - 224) * 4096 + t(1) * 64 + t(2)
        ELSE (bytes[i] - 240) * 262144 + t(1) * 4096 + t(2) * 64 + t(3)

RECURSIVE Utf8From(_, _, _)
Utf8From(bytes, i, acc) ==
    IF i > Len(bytes) THEN [ok |-> TRUE, chars |-> acc]
    ELSE LET w == Utf8Width(bytes, i)
         IN  IF w = 0 THEN [ok |-> FALSE, chars |-> <<>>]
             ELSE Utf8From(bytes, i + w, Append(acc, Utf8CodePoint(bytes, i, w)))

\* Ok(text) or Err
FromUtf8(bytes) == Utf8From(bytes, 1, <<>>)

-----------------------------------------------------------------------------
(* str::split_whitespace *)

\* char::is_whitespace (the Unicode White_Space property)
IsWhitespace(ch) ==
    \/ ch \in 9..13
    \/ ch = 32
    \/ ch = 133
    \/ ch = 160
    \/ ch = 5760
    \/ ch \in 8192..8202
    \/ ch \in {8232, 8233, 8239, 8287, 12288}

RECURSIVE SplitFrom(_, _, _, _)
SplitFrom(chars, i, cur, acc) ==
    LET flush == IF cur = <<>> THEN acc ELSE Append(acc, cur)
    IN  IF i > Len(chars) THEN flush
        ELSE IF IsWhitespace(chars[i]) THEN SplitFrom(chars, i + 1, <<>>, flush)
        ELSE SplitFrom(chars, i + 1, Append(cur, chars[i]), acc)

\* the non-empty maximal runs of non-whitespace characters, in order
SplitWhitespace(chars) == SplitFrom(chars, 1, <<>>, <<>>)

-----------------------------------------------------------------------------
(* str::parse::<i32> *)

IsDigit(ch) == ch \in 48..57

ParseErr == [ok |-> FALSE, val |-> 0]

\* accumulate the digits tok[i..], toward MinI32 for a negative number and
\* toward MaxI32 otherwise, failing on a non-digit and on leaving the range
RECURSIVE ParseDigits(_, _, _, _)
ParseDigits(tok, i, acc, neg) ==
    IF i > Len(tok) THEN [ok |-> TRUE, val |-> acc]
    ELSE IF ~IsDigit(tok[i]) THEN ParseErr
    ELSE LET d == tok[i] - 48
         IN  IF neg
             THEN IF acc < (MinI32 + d + 9) \div 10 THEN ParseErr
                  ELSE ParseDigits(tok, i + 1, acc * 10 - d, neg)
             ELSE IF acc > (MaxI32 - d) \div 10 THEN ParseErr
                  ELSE ParseDigits(tok, i + 1, acc * 10 + d, neg)

\* an optional sign, then at least one decimal digit, within the i32 range
ParseI32(tok) ==
    IF tok = <<>> THEN ParseErr
    ELSE IF tok[1] \in {43, 45}
         THEN IF Len(tok) = 1 THEN ParseErr
              ELSE ParseDigits(tok, 2, 0, tok[1] = 45)
         ELSE ParseDigits(tok, 1, 0, FALSE)

-----------------------------------------------------------------------------
(* The records the serial port delivers.  The transmitter prints seven     *)
(* decimal numbers separated by spaces; the line is noisy, so records also *)
(* arrive truncated, merged, garbled and in other spellings.               *)

\* the delimiter of read_until
CR == 13

\* the decimal digits of |m|, for m <= 0
RECURSIVE DigitsOfNeg(_)
DigitsOfNeg(m) ==
    IF m > -10 THEN <<48 - m>>
    ELSE LET r == m % 10
             d == IF r = 0 THEN 0 ELSE 10 - r
             q == IF r = 0 THEN m \div 10 ELSE m \div 10 + 1
         IN  Append(DigitsOfNeg(q), 48 + d)

\* the decimal spelling of an i32, as the transmitter prints it
Dec(n) == IF n < 0 THEN <<45>> \o DigitsOfNeg(n) ELSE DigitsOfNeg(-n)

RECURSIVE Join(_, _)
Join(toks, sep) ==
    IF toks = <<>> THEN <<>>
    ELSE IF Len(toks) = 1 THEN toks[1]
    ELSE toks[1] \o sep \o Join(Tail(toks), sep)

\* a record of the given tokens, separated by sep and ended by the delimiter
LineOf(toks, sep) == Join(toks, sep) \o <<CR>>

\* the record the transmitter prints for a sequence of numbers
Line(nums) == LineOf([i \in 1..Len(nums) |-> Dec(nums[i])], <<32>>)

ExampleFrame == <<1, 0, 700, 300, 2, 1, 0>>
CenterFrame == <<0, 0, 512, 512, 2, 0, 0>>

\* raw axis values far from the joystick's range and at the ends of i32
AxisSamples ==
    {MinI32, MinI32 + 511, MinI32 + 512, -1, 0, 1, 300, 700, 1023, 1024, 2000,
     MaxI32}

\* every raw value around the center on both axes (X upward, Y downward),
\* and the samples on each axis
SweepFrames ==
    {<<0, 0, r, 1023 - r, 1, 0, 0>> : r \in SweepLo..SweepHi} \cup
    {<<0, 0, r, 512, 1, 0, 0>> : r \in AxisSamples} \cup
    {<<0, 0, 512, r, 1, 0, 0>> : r \in AxisSamples}

FlagFrames ==
    {<<l, r, 700, 300, 2, 0, 0>> : l, r \in 0..MaxFlag} \cup
    {<<0, 0, 512, 512, 2, u, d>> : u, d \in 0..MaxFlag} \cup
    {<<l, r, 700, 300, s, u, d>> : l, r, u, d \in 0..1, s \in {0, 2}}

SensitivitySamples == {0, 1, -1, 2, -2, 3, -3, 41, MaxI32, MinI32}

SensitivityFrames ==
    {<<1, 0, ax, ay, s, 1, 0>> :
        ax \in {471, 553, 700, MinI32}, ay \in {300, 553},
        s \in SensitivitySamples}

Frames == {ExampleFrame, CenterFrame} \cup SweepFrames \cup FlagFrames
            \cup SensitivityFrames

\* the first n numbers of the example frame, continued with 1s
Numbers(n) == [i \in 1..n |-> IF i <= 7 THEN ExampleFrame[i] ELSE 1]

\* records with too few or too many numbers
CountRecords == {Line(Numbers(n)) : n \in (0..MaxTokens) \ {7}}

\* tokens that are text but no i32: abc, 2147483648, -2147483649, -, +,
\* 1.5, 12a and the two-byte character U+00E9
BadTokens ==
    { <<97, 98, 99>>,
      <<50, 49, 52, 55, 52, 56, 51, 54, 52, 56>>,
      <<45, 50, 49, 52, 55, 52, 56, 51, 54, 52, 57>>,
      <<45>>,
      <<43>>,
      <<49, 46, 53>>,
      <<49, 50, 97>>,
      <<195, 169>> }

\* records of n tokens whose i-th token is no number
BadTokenRecords ==
    {LineOf([k \in 1..n |-> IF k = i THEN bad ELSE Dec(Numbers(n)[k])], <<32>>) :
        n \in {1, 7, MaxTokens}, i \in {1, 4, MaxTokens}, bad \in BadTokens}

\* the example frame in other spellings: signs and leading zeros, tabs,
\* runs of spaces, a line feed left over from the line before, U+00A0 and
\* U+2003 as separators, and no delimiter (end of stream)
SpellingRecords ==
    { LineOf(<<<<43, 49>>, <<45, 48>>, <<48, 55, 48, 48>>, <<51, 48, 48>>,
               <<43, 50>>, <<48, 49>>, <<48>>>>, <<32>>),
      LineOf([i \in 1..7 |-> Dec(ExampleFrame[i])], <<9>>),
      LineOf([i \in 1..7 |-> Dec(ExampleFrame[i])], <<32, 32, 9>>),
      <<10>> \o Line(ExampleFrame),
      <<10>> \o Line(CenterFrame),
      LineOf([i \in 1..7 |-> Dec(ExampleFrame[i])], <<194, 160>>),
      LineOf([i \in 1..7 |-> Dec(ExampleFrame[i])], <<226, 128, 131>>),
      Join([i \in 1..7 |-> Dec(ExampleFrame[i])], <<32>>),
      <<CR>>,
      <<>> }

\* byte sequences that are not UTF-8: a byte that never occurs, a lone
\* continuation byte, an overlong form, a surrogate, a truncated sequence,
\* a code point past U+10FFFF
Garbage ==
    { <<255>>, <<128>>, <<192, 128>>, <<237, 160, 128>>, <<226, 130>>,
      <<244, 144, 128, 128>> }

\* records with garbage before, inside or after their numbers
GarbledRecords ==
    {g \o Line(Numbers(n)) : g \in Garbage, n \in {0, 6, 7, MaxTokens}} \cup
    {Join([i \in 1..n |-> Dec(Numbers(n)[i])], <<32>>) \o g \o <<CR>> :
        g \in Garbage, n \in {6, 7}} \cup
    {LineOf([i \in 1..7 |-> IF i = 4 THEN <<51>> \o g \o <<48>>
                            ELSE Dec(ExampleFrame[i])], <<32>>) : g \in Garbage}

Records ==
    {Line(f) : f \in Frames} \cup CountRecords \cup BadTokenRecords
        \cup SpellingRecords \cup GarbledRecords

-----------------------------------------------------------------------------
(* The decoding steps of main (lines 52-98) as functions. *)

\* the number of tokens a frame must have (line 65)
FieldCount == 7
\* the center of the joystick's range (lines 76, 83)
Center == 512
\* the largest magnitude of a recentered axis (lines 76, 83)
AxisMax == 511
\* the half-width of the deadzone (lines 77, 84)
DeadzoneHalfWidth == 40

\* lines 60-62: the iterator's items, each token parsed
ParseAll(tokens) == [i \in 1..Len(tokens) |-> ParseI32(tokens[i])]

\* line 62: unwrap panics on a token that is no i32; count (line 65) and
\* every next (lines 69-93) run the closure on the tokens they pass
AnyParseFails(parsed) == \E i \in 1..Len(parsed) : ~parsed[i].ok

\* the count check letting records of more than 7 numbers through
WrongFieldCount_TooFew(parsed) == Len(parsed) < FieldCount

\* line 65: data.clone().count() != 7
WrongFieldCount(parsed) == Len(parsed) # FieldCount

\* the click decode with Left winning over Right
ClickDecode_LeftFirst(left, right) ==
    IF ~left /\ ~right THEN "None"
    ELSE IF left THEN "Left"
    ELSE "Right"

\* lines 69-73
ClickDecode(left, right) ==
    IF ~left /\ ~right THEN "None"
    ELSE IF right THEN "Right"
    ELSE "Left"

\* the deadzone one unit narrower
Deadzone_Narrow(v) == IF Abs(v) < DeadzoneHalfWidth - 1 THEN 0 ELSE v

\* lines 77-79, 84-86
Deadzone(v) == IF Abs(v) < DeadzoneHalfWidth THEN 0 ELSE v

\* lines 76-80, 83-87: raw - 512 panics on overflow in a build with overflow
\* checks and wraps around in a build without
AxisDecode(raw, checks) ==
    IF checks /\ SubOverflows(raw, Center)
    THEN [panic |-> TRUE, val |-> 0]
    ELSE [panic |-> FALSE,
          val |-> Deadzone(Clamp(WrappingSub(raw, Center), -AxisMax, AxisMax))]

\* the scroll decode with up winning over down
ScrollDecode_UpFirst(up, down) ==
    IF up THEN 1
    ELSE IF down THEN -1
    ELSE 0

\* lines 94-98
ScrollDecode(up, down) ==
    IF up = down THEN 0
    ELSE IF up THEN 1
    ELSE -1

\* lines 105, 106: the displacement of one axis
Displacement(axis, s) == UnwrapOr(CheckedDiv(axis, s), 0)

-----------------------------------------------------------------------------
(* The state machine. *)

Screen == (0..ScreenMax) \X (0..1)

\* position before the first get_position
NoPosition == <<-1, -1>>

\* where the host puts the cursor for move_to(target): inside the screen
ClampToScreen(target) ==
    <<Clamp(target[1], 0, ScreenMax), Clamp(target[2], 0, 1)>>

\* one pointer-device call, as the device sees it
Call(op, pos, key, delta) == [op |-> op, pos |-> pos, key |-> key, delta |-> delta]

Init ==
    /\ pc = "read"
    /\ status = "running"
    /\ overflow_checks \in BOOLEAN
    /\ buffer = <<>>
    /\ data = <<>>
    /\ click = "None"
    /\ x = 0
    /\ y = 0
    /\ sensitivity = 0
    /\ scroll = 0
    /\ position = NoPosition
    /\ cursor \in Screen
    /\ calls = <<>>

\* lines 46-50: an iteration reads one record into a new buffer
ReadUntil ==
    /\ pc = "read"
    /\ status = "running"
    /\ \E rec \in Records : buffer' = rec
    /\ pc' = "decode"
    /\ UNCHANGED <<status, overflow_checks, data, click, x, y, sensitivity,
                   scroll, position, cursor, calls>>

\* line 50: the read fails and unwrap panics
ReadFail ==
    /\ pc = "read"
    /\ status = "running"
    /\ status' = "panic_transport"
    /\ UNCHANGED <<pc, overflow_checks, buffer, data, click, x, y,
                   sensitivity, scroll, position, cursor, calls>>

\* `continue`: to the end of the loop body
Continue ==
    /\ pc' = "end"
    /\ UNCHANGED <<status, overflow_checks, buffer, data, click, x, y,
                   sensitivity, scroll, position, cursor, calls>>

\* a panic ends the process where it is
Panic(why) ==
    /\ status' = why
    /\ UNCHANGED <<pc, overflow_checks, buffer, data, click, x, y,
                   sensitivity, scroll, position, cursor, calls>>

\* lines 52-98: from the bytes to click, x, y, sensitivity and scroll
Decode ==
    /\ pc = "decode"
    /\ status = "running"
    /\ LET text == FromUtf8(buffer)
       IN  IF ~text.ok THEN Continue
           ELSE
           LET parsed == ParseAll(SplitWhitespace(text.chars))
           IN  IF AnyParseFails(parsed) THEN Panic("panic_parse")
               ELSE IF WrongFieldCount(parsed) THEN Continue
               ELSE
               LET n == [i \in 1..Len(parsed) |-> parsed[i].val]
                   ax == AxisDecode(n[3], overflow_checks)
                   ay == AxisDecode(n[4], overflow_checks)
               IN  IF ax.panic \/ ay.panic THEN Panic("panic_overflow")
                   ELSE /\ data' = n
                        /\ click' = ClickDecode(n[1] = 1, n[2] = 1)
                        /\ x' = ax.val
                        /\ y' = ay.val
                        /\ sensitivity' = n[5]
                        /\ scroll' = ScrollDecode(n[6] = 1, n[7] = 1)
                        /\ pc' = "get_position"
                        /\ UNCHANGED <<status, overflow_checks, buffer,
                                       position, cursor, calls>>

\* get_position with the position kept from the first read on
GetPosition_Cached ==
    /\ pc = "get_position"
    /\ status = "running"
    /\ position' = IF position = NoPosition THEN cursor ELSE position
    /\ calls' = Append(calls, Call("get_position", cursor, "None", 0))
    /\ pc' = "move_to"
    /\ UNCHANGED <<status, overflow_checks, buffer, data, click, x, y,
                   sensitivity, scroll, cursor>>

\* line 101
GetPosition ==
    /\ pc = "get_position"
    /\ status = "running"
    /\ position' = cursor
    /\ calls' = Append(calls, Call("get_position", cursor, "None", 0))
    /\ pc' = "move_to"
    /\ UNCHANGED <<status, overflow_checks, buffer, data, click, x, y,
                   sensitivity, scroll, cursor>>

\* lines 105, 106: the arguments of move_to
MoveTarget ==
    <<position[1] + Displacement(x, sensitivity),
      position[2] + Displacement(y, sensitivity)>>

\* lines 103-108, 110
MoveTo ==
    /\ pc = "move_to"
    /\ status = "running"
    /\ calls' = Append(calls, Call("move_to", MoveTarget, "None", 0))
    /\ cursor' = ClampToScreen(MoveTarget)
    /\ pc' = IF click # "None" THEN "click" ELSE "wheel"
    /\ UNCHANGED <<status, overflow_checks, buffer, data, click, x, y,
                   sensitivity, scroll, position>>

\* line 111
Click ==
    /\ pc = "click"
    /\ status = "running"
    /\ calls' = Append(calls, Call("click", <<0, 0>>, click, 0))
    /\ pc' = "wheel"
    /\ UNCHANGED <<status, overflow_checks, buffer, data, click, x, y,
                   sensitivity, scroll, position, cursor>>

\* wheel called only for a delta that is not 0
Wheel_IfNonzero ==
    /\ pc = "wheel"
    /\ status = "running"
    /\ calls' = IF scroll # 0
                THEN Append(calls, Call("wheel", <<0, 0>>, "None", scroll))
                ELSE calls
    /\ pc' = "end"
    /\ UNCHANGED <<status, overflow_checks, buffer, data, click, x, y,
                   sensitivity, scroll, position, cursor>>

\* line 113
Wheel ==
    /\ pc = "wheel"
    /\ status = "running"
    /\ calls' = Append(calls, Call("wheel", <<0, 0>>, "None", scroll))
    /\ pc' = "end"
    /\ UNCHANGED <<status, overflow_checks, buffer, data, click, x, y,
                   sensitivity, scroll, position, cursor>>

\* lines 46, 114: the loop body ends, its locals are dropped and the next
\* iteration begins; the model also forgets the calls of the iteration
EndIteration ==
    /\ pc = "end"
    /\ status = "running"
    /\ buffer' = <<>>
    /\ data' = <<>>
    /\ click' = "None"
    /\ x' = 0
    /\ y' = 0
    /\ sensitivity' = 0
    /\ scroll' = 0
    /\ calls' = <<>>
    /\ pc' = "read"
    /\ UNCHANGED <<status, overflow_checks, position, cursor>>

\* lines 101, 108, 111, 113: a pointer-device call fails and unwrap panics
DeviceFail ==
    /\ pc \in {"get_position", "move_to", "click", "wheel"}
    /\ status = "running"
    /\ Panic("panic_device")

\* an external actor moves the cursor
ExternalMove ==
    /\ status = "running"
    /\ \E p \in Screen \ {cursor} : cursor' = p
    /\ UNCHANGED <<pc, status, overflow_checks, buffer, data, click, x, y,
                   sensitivity, scroll, position, calls>>

Next ==
    \/ ReadUntil
    \/ ReadFail
    \/ Decode
    \/ GetPosition
    \/ MoveTo
    \/ Click
    \/ Wheel
    \/ EndIteration
    \/ DeviceFail
    \/ ExternalMove

Spec == Init /\ [][Next]_vars

TypeOK ==
    /\ pc \in {"read", "decode", "get_position", "move_to", "click", "wheel",
               "end"}
    /\ status \in {"running", "panic_transport", "panic_parse",
                   "panic_overflow", "panic_device"}
    /\ click \in {"None", "Left", "Right"}
    /\ Len(data) \in {0, 7}
    /\ Len(calls) <= 4

-----------------------------------------------------------------------------
(* Vocabulary of the properties. *)

\* the tokens of a record that is text, each parsed
ParsedTokens(bytes) == ParseAll(SplitWhitespace(FromUtf8(bytes).chars))

\* the record is text and one of its tokens is no i32
HasBadToken(bytes) ==
    FromUtf8(bytes).ok /\ \E i \in 1..Len(ParsedTokens(bytes)) : ~ParsedTokens(bytes)[i].ok

\* the record is text and all its tokens are i32s
AllNumbers(bytes) ==
    FromUtf8(bytes).ok /\ \A i \in 1..Len(ParsedTokens(bytes)) : ParsedTokens(bytes)[i].ok

\* the record is no text, or it is numbers but not seven of them
Rejected(bytes) ==
    LET text == FromUtf8(bytes)
        parsed == ParseAll(SplitWhitespace(text.chars))
    IN  \/ ~text.ok
        \/ /\ Len(parsed) # 7
           /\ \A i \in 1..Len(parsed) : parsed[i].ok

\* the record is a frame: seven numbers
IsFrame(bytes) == AllNumbers(bytes) /\ Len(ParsedTokens(bytes)) = 7

\* the i-th number of a record that is a frame
Field(bytes, i) == ParsedTokens(bytes)[i].val

\* the iteration has decoded its frame
Decoded == Len(data) = 7

\* the iteration has run to the end of the loop body
AtEnd == pc = "end" /\ status = "running"

\* the names of the calls, in the order they were issued
Ops(cs) == [i \in 1..Len(cs) |-> cs[i].op]

\* the calls after get_position
Commands(cs) == SelectSeq(cs, LAMBDA c : c.op # "get_position")

IsPrefix(s, t) == Len(s) <= Len(t) /\ \A i \in 1..Len(s) : s[i] = t[i]

\* the indices of the calls named op
CallsOf(op) == {i \in 1..Len(calls) : calls[i].op = op}

\* d is the quotient of a by s truncated toward zero (|a| <= 511, s # 0)
IsTruncatedQuotient(d, a, s) ==
    IF s > AxisMax \/ s < -AxisMax THEN d = 0
    ELSE LET r == a - d * s
         IN  Abs(r) < Abs(s) /\ (r = 0 \/ (r > 0) = (a > 0))

\* the displacement the move_to call i applies, from the position read
Moved(i) == <<calls[i].pos[1] - position[1], calls[i].pos[2] - position[2]>>

-----------------------------------------------------------------------------
(* C1 *)

\* C1: a record that is valid text but holds a token that is no i32 is
\* rejected without an unrecoverable error: the process does not panic, no
\* pointer-device call is made for it, and the loop goes on to the next read.
C1_BadTokenRejected ==
    HasBadToken(buffer) =>
        /\ status = "running"
        /\ calls = <<>>
        /\ pc \in {"decode", "end"}

-----------------------------------------------------------------------------
(* C2 *)

\* C2: for a record rejected because it is not UTF-8 or because its number
\* of integer tokens is not 7, no pointer-device call is made between
\* reading it and reading the next record, and the loop goes on: the process
\* has not panicked and is about to decode the record or at the end of the
\* iteration.
C2_RejectedNoCalls ==
    \/ pc = "read"
    \/ calls = <<>> /\ status = "running" /\ pc \in {"decode", "end"}
    \/ ~Rejected(buffer)

\* an iteration has rejected a record of 8 numbers
C2_Witness ==
    /\ AtEnd
    /\ calls = <<>>
    /\ AllNumbers(buffer)
    /\ Len(ParsedTokens(buffer)) = 8

-----------------------------------------------------------------------------
(* C3 *)

\* C3 as stated: for every raw axis value in 472..551 the decoded axis is 0,
\* on X and on Y.
C3_DeadzoneFrom472 ==
    Decoded =>
        /\ data[3] \in 472..551 => x = 0
        /\ data[4] \in 472..551 => y = 0

\* C3 amended: for every raw axis value in 473..551 the decoded axis is 0,
\* on X and on Y.
C3_DeadzoneFrom473 ==
    Decoded =>
        /\ data[3] \in 473..551 => x = 0
        /\ data[4] \in 473..551 => y = 0

\* a frame with both axes at the ends of the deadzone has been decoded
C3_Witness ==
    /\ Decoded
    /\ data[3] = 473 /\ x = 0
    /\ data[4] = 550 /\ y = 0

-----------------------------------------------------------------------------
(* C4 *)

\* the commands of a decoded frame, with the scroll call only for a delta
\* that is not 0
CommandsIfNonzero ==
    <<"move_to">> \o (IF click # "None" THEN <<"click">> ELSE <<>>)
                  \o (IF scroll # 0 THEN <<"wheel">> ELSE <<>>)

\* the commands of a decoded frame, with the scroll call for every frame
CommandsAlways ==
    <<"move_to">> \o (IF click # "None" THEN <<"click">> ELSE <<>>)
                  \o <<"wheel">>

\* C4 as stated: an iteration that decoded a frame and ran to its end has
\* issued move, then click if and only if the click is Left or Right, then
\* scroll if and only if the delta is not 0.
C4_ScrollIfNonzero ==
    AtEnd /\ Decoded => Ops(Commands(calls)) = CommandsIfNonzero

\* C4 amended: the calls are issued in the order get_position, move, click,
\* scroll; the click call is issued if and only if the click is Left or
\* Right and carries that button; the scroll call is issued for every frame
\* and carries the delta, 0 included.  An iteration that has not reached its
\* end has issued a prefix of these calls.
C4_ScrollAlways ==
    /\ calls # <<>> => Decoded
    /\ IsPrefix(Ops(calls), <<"get_position">> \o CommandsAlways)
    /\ \A i \in CallsOf("click") : calls[i].key = click
    /\ \A i \in CallsOf("wheel") : calls[i].delta = scroll
    /\ AtEnd /\ Decoded => Ops(Commands(calls)) = CommandsAlways

\* an iteration has issued move, click and a scroll of 0
C4_Witness ==
    /\ AtEnd
    /\ Decoded
    /\ click = "Left"
    /\ scroll = 0
    /\ Ops(calls) = <<"get_position", "move_to", "click", "wheel">>
    /\ calls[4].delta = 0

-----------------------------------------------------------------------------
(* C5 *)

\* C5: for every i32 raw axis value a frame carries, recenter-then-clamp
\* yields a value in -511..511 and the program does not fail computing it.
C5_RecenterClampInRange ==
    /\ status # "panic_overflow"
    /\ Decoded => x \in -511..511 /\ y \in -511..511

-----------------------------------------------------------------------------
(* C6 *)

\* C6: for a frame whose sensitivity is 0, whatever its raw X and Y, the
\* process does not crash, the move targets exactly the position just read,
\* and click and scroll are decoded and issued as for any other frame.
C6_ZeroSensitivity ==
    IsFrame(buffer) /\ Field(buffer, 5) = 0 =>
        /\ status \notin {"panic_parse", "panic_overflow"}
        /\ \A i \in CallsOf("move_to") : calls[i].pos = position
        /\ \A i \in CallsOf("click") : calls[i].key = click
        /\ \A i \in CallsOf("wheel") : calls[i].delta = scroll
        /\ AtEnd => Ops(Commands(calls)) = CommandsAlways

-----------------------------------------------------------------------------
(* C7 *)

\* C7: for a frame with sensitivity s # 0 the displacement of each axis is
\* the decoded axis value divided by s, truncated toward zero (-41 / 2 is
\* -20); the frame 1 0 700 300 2 1 0 yields dx = 94, dy = -106, Left and
\* scroll 1, and the frame 0 0 512 512 2 0 0 yields no displacement, no
\* click and scroll 0.
C7_TruncatedDisplacement ==
    Decoded /\ sensitivity # 0 =>
        /\ data = ExampleFrame =>
              x = 188 /\ y = -212 /\ click = "Left" /\ scroll = 1
        /\ data = CenterFrame =>
              x = 0 /\ y = 0 /\ click = "None" /\ scroll = 0
        /\ \A i \in CallsOf("move_to") :
              /\ IsTruncatedQuotient(Moved(i)[1], x, sensitivity)
              /\ IsTruncatedQuotient(Moved(i)[2], y, sensitivity)
              /\ x = -41 /\ sensitivity = 2 => Moved(i)[1] = -20
              /\ data = ExampleFrame => Moved(i) = <<94, -106>>
              /\ data = CenterFrame => Moved(i) = <<0, 0>>

\* an iteration has issued a move by -41 / 2 = -20 on X
C7_Witness ==
    /\ AtEnd
    /\ x = -41
    /\ sensitivity = 2
    /\ Len(calls) = 4
    /\ Moved(2)[1] = -20

-----------------------------------------------------------------------------
(* C8 *)

\* C8: with left and right flags in {0, 1} the click is None for (0, 0),
\* Right whenever the right flag is 1, Left for (1, 0), and at most one
\* click call is issued per frame, with that button.
C8_ClickDecode ==
    Decoded /\ data[1] \in {0, 1} /\ data[2] \in {0, 1} =>
        /\ click = (IF data[2] = 1 THEN "Right"
                    ELSE IF data[1] = 1 THEN "Left"
                    ELSE "None")
        /\ Cardinality(CallsOf("click")) <= 1
        /\ \A i \in CallsOf("click") : calls[i].key = click /\ click # "None"

\* both flags were set and the click issued was Right
C8_Witness ==
    /\ AtEnd
    /\ Decoded
    /\ data[1] = 1 /\ data[2] = 1
    /\ \E i \in CallsOf("click") : calls[i].key = "Right"

-----------------------------------------------------------------------------
(* C9 *)

\* C9: with scroll-up and scroll-down flags in {0, 1} the scroll delta is
\* 0 for (0, 0) and for (1, 1), +1 for (1, 0) and -1 for (0, 1).
C9_ScrollDecode ==
    Decoded /\ data[6] \in {0, 1} /\ data[7] \in {0, 1} =>
        /\ scroll \in {-1, 0, 1}
        /\ data[6] = 0 /\ data[7] = 0 => scroll = 0
        /\ data[6] = 1 /\ data[7] = 1 => scroll = 0
        /\ data[6] = 1 /\ data[7] = 0 => scroll = 1
        /\ data[6] = 0 /\ data[7] = 1 => scroll = -1

\* up and down were both set and the iteration ran to its end with delta 0
C9_Witness ==
    /\ AtEnd
    /\ Decoded
    /\ data[6] = 1 /\ data[7] = 1
    /\ scroll = 0
    /\ \E i \in CallsOf("wheel") : calls[i].delta = 0

-----------------------------------------------------------------------------
(* C10 *)

\* C10: an iteration that decodes a frame reads the cursor position once,
\* before the move, and the move targets the position the device returned in
\* this iteration plus the displacement of the frame; no position of an
\* earlier iteration is used.
C10_FreshPosition ==
    /\ Cardinality(CallsOf("get_position")) <= 1
    /\ AtEnd /\ Decoded => Cardinality(CallsOf("get_position")) = 1
    /\ \A i \in CallsOf("move_to") :
          /\ i = 2
          /\ calls[1].op = "get_position"
          /\ calls[i].pos =
                <<calls[1].pos[1] + Displacement(x, sensitivity),
                  calls[1].pos[2] + Displacement(y, sensitivity)>>

\* an iteration moved the cursor from the position it read, and an external
\* actor has moved the cursor since
C10_Witness ==
    /\ AtEnd
    /\ Decoded
    /\ Len(calls) >= 2
    /\ calls[2].pos = <<calls[1].pos[1] + 94, calls[1].pos[2] - 106>>
    /\ cursor # ClampToScreen(calls[2].pos)

====
